---- MODULE Spec2Model ----
(***************************************************************************)
(* Gesture controller of the annatree scene (components/Experience.tsx):   *)
(* GestureManager differences consecutive 64x64 webcam frames and calls    *)
(* onUpdate(energy, cx, cy); Experience keeps unleashed / motionEnergy /   *)
(* handPos and also reacts to pointer events.                              *)
(*                                                                         *)
(* Numbers.  JavaScript numbers are doubles; every quantity the handlers    *)
(* compare is a ratio of small integers, so it is kept as an exact          *)
(* rational [n, d] with d > 0.  k/500 against the literals 0.1, 0.15, 0.2,  *)
(* 0.35 compares as the exact rationals do: IEEE division is correctly      *)
(* rounded and monotone, and k/500 is either equal to the literal's real    *)
(* value or at least 1/500 away from it.                                    *)
(*                                                                         *)
(* Frames.  A frame is the RGBA byte array getImageData returns.  It is     *)
(* kept as a descriptor (a window of the grid whose first n pixels, in      *)
(* row-major order, have colour fg on a black opaque background); Data      *)
(* gives the byte at every index of the array, and the differencing loop    *)
(* reads bytes only through Data.                                           *)
(*                                                                         *)
(* Handlers.  Each handler is one atomic step: the setState calls of a      *)
(* handler are taken as committed before the next handler runs, so          *)
(* handlePointerMove reads the motionEnergy the last tick set.              *)
(***************************************************************************)
EXTENDS Integers, FiniteSets, Sequences, TLC

(* ------------------------------ bounds --------------------------------- *)
\* viewport size in CSS pixels; pointer events carry 0..innerWidth, 0..innerHeight
innerWidth == 1
innerHeight == 1
\* the transition counters of the wave observer saturate here
MaxCount == 3

(* ------------------------- program constants --------------------------- *)
CanvasSize == 64
PixelThreshold == 50
EnergyDivisor == 500
HalfGrid == 32
BytesPerPixel == 4

(* ------------------------------ rationals ------------------------------ *)
Rat(n, d) == [n |-> n, d |-> d]
RInt(k) == Rat(k, 1)
RLt(a, b) == a.n * b.d < b.n * a.d
RGt(a, b) == RLt(b, a)
REq(a, b) == a.n * b.d = b.n * a.d
RLe(a, b) == ~RLt(b, a)
RDivInt(a, k) == Rat(a.n, a.d * k)
RMulInt(a, k) == Rat(a.n * k, a.d)
RSubInt(a, k) == Rat(a.n - k * a.d, a.d)
RNeg(a) == Rat(0 - a.n, a.d)
MathMin(a, b) == IF RLt(b, a) THEN b ELSE a
MathAbs(k) == IF k < 0 THEN 0 - k ELSE k

(* ------------------------------- frames -------------------------------- *)
Black == <<0, 0, 0, 255>>
White == <<255, 255, 255, 255>>
Dim50 == <<20, 20, 10, 255>>
Dim51 == <<20, 20, 11, 255>>
Clear == <<0, 0, 0, 0>>

Patch(x0, y0, w, h, n, fg) ==
  [x0 |-> x0, y0 |-> y0, w |-> w, h |-> h, n |-> n, fg |-> fg]
Prefix(n, fg) == Patch(0, 0, CanvasSize, CanvasSize, n, fg)

\* numbers of leading white pixels; their pairwise differences are the
\* motion scores the camera can deliver
PrefixLengths == {0, 25, 50, 100, 275, 280, 525, CanvasSize * CanvasSize}

\* a patch of QuadrantPixels white pixels at the top of each quadrant
QuadrantPixels == 80
QuadrantFrames ==
  { Patch(x0, y0, HalfGrid, HalfGrid, QuadrantPixels, White) :
      x0 \in {0, HalfGrid}, y0 \in {0, HalfGrid} }

Frames ==
  { Prefix(n, White) : n \in PrefixLengths }
    \cup { Prefix(100, Dim50), Prefix(100, Dim51), Prefix(100, Clear) }
    \cup QuadrantFrames

\* colour of pixel p (row-major index) of frame f
PixelAt(f, p) ==
  LET x == p % CanvasSize
      y == p \div CanvasSize
  IN IF /\ x >= f.x0 /\ x < f.x0 + f.w
        /\ y >= f.y0 /\ y < f.y0 + f.h
        /\ (y - f.y0) * f.w + (x - f.x0) < f.n
     THEN f.fg ELSE Black

\* the pixel that imageData.data[i .. i+3] encodes, as <<R, G, B, A>>
DataLength == CanvasSize * CanvasSize * BytesPerPixel
Data(f, i) == PixelAt(f, i \div BytesPerPixel)

(* ---------------------- GestureManager: differencing ------------------- *)
NoTally == [diffScore |-> 0, activePixels |-> 0, sumX |-> 0, sumY |-> 0]

\* variant: the pixel test written >= instead of >
LoopBody_AtLeast(data, last, i) ==
  LET cur == Data(data, i)
      old == Data(last, i)
      rDiff == MathAbs(cur[1] - old[1])
      gDiff == MathAbs(cur[2] - old[2])
      bDiff == MathAbs(cur[3] - old[3])
  IN IF rDiff + gDiff + bDiff >= PixelThreshold
     THEN LET pixelIdx == i \div BytesPerPixel
          IN [diffScore |-> 1, activePixels |-> 1,
              sumX |-> pixelIdx % CanvasSize,
              sumY |-> pixelIdx \div CanvasSize]
     ELSE NoTally

\* one iteration of the loop body at byte offset i: what it adds to the
\* tally; data[i], data[i+1], data[i+2] are bytes 1, 2, 3 of the pixel at i
LoopBody(data, last, i) ==
  LET cur == Data(data, i)
      old == Data(last, i)
      rDiff == MathAbs(cur[1] - old[1])
      gDiff == MathAbs(cur[2] - old[2])
      bDiff == MathAbs(cur[3] - old[3])
  IN IF rDiff + gDiff + bDiff > PixelThreshold
     THEN LET pixelIdx == i \div BytesPerPixel
          IN [diffScore |-> 1, activePixels |-> 1,
              sumX |-> pixelIdx % CanvasSize,
              sumY |-> pixelIdx \div CanvasSize]
     ELSE NoTally

AddTally(a, b) ==
  [diffScore |-> a.diffScore + b.diffScore,
   activePixels |-> a.activePixels + b.activePixels,
   sumX |-> a.sumX + b.sumX,
   sumY |-> a.sumY + b.sumY]

\* for (let i = from; i < to; i += 4): the increments of the iterations,
\* summed by halves of the index range
DiffLoop(data, last, from, to) ==
  LET loop[lo \in from..to, hi \in from..to] ==
        IF hi <= lo THEN NoTally
        ELSE IF hi - lo = BytesPerPixel THEN LoopBody(data, last, lo)
        ELSE LET mid == lo + ((hi - lo) \div (2 * BytesPerPixel)) * BytesPerPixel
             IN AddTally(loop[lo, mid], loop[mid, hi])
  IN loop[from, to]

\* the tally of every pair of frames, evaluated once
TallyTable == [last \in Frames, data \in Frames |-> DiffLoop(data, last, 0, DataLength)]

Null == [null |-> TRUE]

\* the tally of one tick: skipped when there is no last frame
Tally(data, last) == IF last = Null THEN NoTally ELSE TallyTable[last, data]

\* variant: the clamp left out
Energy_NoClamp(diffScore) == Rat(diffScore, EnergyDivisor)

\* variant: normalised by the number of pixels instead of 500
Energy_ByPixels(diffScore) ==
  MathMin(Rat(diffScore, CanvasSize * CanvasSize), RInt(1))

\* const energy = Math.min(diffScore / 500, 1)
Energy(diffScore) == MathMin(Rat(diffScore, EnergyDivisor), RInt(1))

\* variant: the empty case guarded by a divisor of at least 1
Centre_NoDefault(sum, activePixels) ==
  RSubInt(RDivInt(Rat(sum, IF activePixels > 0 THEN activePixels ELSE 1), HalfGrid), 1)

\* variant: the centroid divided by the grid width instead of its half
Centre_FullGrid(sum, activePixels) ==
  IF activePixels > 0
  THEN RSubInt(RDivInt(Rat(sum, activePixels), CanvasSize), 1)
  ELSE RInt(0)

\* activePixels > 0 ? (sum / activePixels / 32) - 1 : 0
Centre(sum, activePixels) ==
  IF activePixels > 0
  THEN RSubInt(RDivInt(Rat(sum, activePixels), HalfGrid), 1)
  ELSE RInt(0)

(* ------------------------- thresholds (literals) ----------------------- *)
UnleashAbove == Rat(35, 100)    \* energy > 0.35
IdleBelow == Rat(1, 10)         \* energy < 0.1
MoveAbove == Rat(15, 100)       \* energy > 0.15
PointerBelow == Rat(2, 10)      \* motionEnergy < 0.2

(* -------------------------------- state -------------------------------- *)
VARIABLES
  startVideo,     \* getUserMedia promise: "pending", "resolved", "rejected"
  readyState,     \* videoRef.current.readyState
  lastFrameData,  \* lastFrameData.current: Null or a frame
  bufferRef,      \* which array objects lastFrameData.current and the latest
                  \* imageData.data are (0: none)
  unleashed,      \* useState(false)
  motionEnergy,   \* useState(0)
  handPos,        \* useState({x: 0, y: 0})
  \* observers (not program state)
  event,          \* the most recent handler call, its inputs and its outputs
  pointerSeen,    \* some pointer event has been handled
  wave,           \* progress of a rise-to-0.5-and-fall energy sequence
  seqA,           \* progress through energies 0.05, 0.2, 0.36 from IDLE
  seqB,           \* progress through energies 0.36, 0.2, 0.05 from UNLEASHED
  decider,        \* the latest deciding event: "none", "on" or "off"
  held            \* a pointer-down has not been followed by a pointer-up

vars == <<startVideo, readyState, lastFrameData, bufferRef, unleashed, motionEnergy,
          handPos, event, pointerSeen, wave, seqA, seqB, decider, held>>

ReadyStates == {"HAVE_NOTHING", "HAVE_ENOUGH_DATA"}

Origin == [x |-> RInt(0), y |-> RInt(0)]
FreshWave == [phase |-> "rising", ups |-> 0, downs |-> 0]
BrokenWave == [phase |-> "broken", ups |-> 0, downs |-> 0]

Init ==
  /\ startVideo = "pending"
  /\ readyState = "HAVE_NOTHING"
  /\ lastFrameData = Null
  /\ bufferRef = [last |-> 0, data |-> 0]
  /\ unleashed = FALSE
  /\ motionEnergy = RInt(0)
  /\ handPos = Origin
  /\ event = [type |-> "mount"]
  /\ pointerSeen = FALSE
  /\ wave = FreshWave
  /\ seqA = 0
  /\ seqB = 0
  /\ decider = "none"
  /\ held = FALSE

(* ------------------------------ observers ------------------------------ *)
Peak == Rat(1, 2)
E005 == Rat(5, 100)
E020 == Rat(20, 100)
E036 == Rat(36, 100)

Bump(k) == IF k < MaxCount THEN k + 1 ELSE k

\* the wave observer after a tick that delivered energy e; prev is the energy
\* of the tick before it, u and u2 the interaction state before and after
WaveAfterTick(w, prev, e, u, u2) ==
  LET counted == [w EXCEPT !.ups = IF ~u /\ u2 THEN Bump(@) ELSE @,
                           !.downs = IF u /\ ~u2 THEN Bump(@) ELSE @]
  IN IF w.phase = "rising"
     THEN IF RLt(e, prev) \/ RGt(e, Peak)
          THEN (IF REq(e, RInt(0)) /\ ~u2 THEN FreshWave ELSE BrokenWave)
          ELSE IF REq(e, Peak) THEN [counted EXCEPT !.phase = "falling"]
          ELSE counted
     ELSE IF w.phase = "falling"
     THEN IF RGt(e, prev) THEN BrokenWave
          ELSE IF REq(e, RInt(0)) THEN [counted EXCEPT !.phase = "done"]
          ELSE counted
     ELSE IF REq(e, RInt(0)) /\ ~u2 THEN FreshWave ELSE BrokenWave

SeqAAfterTick(k, e, u) ==
  IF k = 1 /\ REq(e, E020) THEN 2
  ELSE IF k = 2 /\ REq(e, E036) THEN 3
  ELSE IF REq(e, E005) /\ ~u THEN 1
  ELSE 0

SeqBAfterTick(k, e, u) ==
  IF k = 1 /\ REq(e, E020) THEN 2
  ELSE IF k = 2 /\ REq(e, E005) THEN 3
  ELSE IF REq(e, E036) /\ u THEN 1
  ELSE 0

\* a tick decides "on" with energy > 0.35 and "off" with energy < 0.1
DeciderAfterTick(d, e) ==
  IF RGt(e, Rat(35, 100)) THEN "on"
  ELSE IF RLt(e, Rat(1, 10)) THEN "off"
  ELSE d

(* ------------------------------ Experience ----------------------------- *)
\* variant: the unleash test written >= instead of >
handleGestureUpdate_AtLeast(energy, cx, cy) ==
  /\ motionEnergy' = energy
  /\ handPos' = IF RGt(energy, MoveAbove)
                THEN [x |-> RNeg(cx), y |-> cy]
                ELSE handPos
  /\ unleashed' = IF RLe(UnleashAbove, energy) THEN TRUE
                  ELSE IF RLt(energy, IdleBelow) THEN FALSE
                  ELSE unleashed

\* variant: the idle test reads the rendered motionEnergy, not the argument
handleGestureUpdate_Stale(energy, cx, cy) ==
  /\ motionEnergy' = energy
  /\ handPos' = IF RGt(energy, MoveAbove)
                THEN [x |-> RNeg(cx), y |-> cy]
                ELSE handPos
  /\ unleashed' = IF RGt(energy, UnleashAbove) THEN TRUE
                  ELSE IF RLt(motionEnergy, IdleBelow) THEN FALSE
                  ELSE unleashed

\* variant: the position written on every update
handleGestureUpdate_AlwaysMove(energy, cx, cy) ==
  /\ motionEnergy' = energy
  /\ handPos' = [x |-> RNeg(cx), y |-> cy]
  /\ unleashed' = IF RGt(energy, UnleashAbove) THEN TRUE
                  ELSE IF RLt(energy, IdleBelow) THEN FALSE
                  ELSE unleashed

\* variant: the position written without mirroring x
handleGestureUpdate_NoMirror(energy, cx, cy) ==
  /\ motionEnergy' = energy
  /\ handPos' = IF RGt(energy, MoveAbove)
                THEN [x |-> cx, y |-> cy]
                ELSE handPos
  /\ unleashed' = IF RGt(energy, UnleashAbove) THEN TRUE
                  ELSE IF RLt(energy, IdleBelow) THEN FALSE
                  ELSE unleashed

\* handleGestureUpdate(energy, cx, cy)
handleGestureUpdate(energy, cx, cy) ==
  /\ motionEnergy' = energy
  /\ handPos' = IF RGt(energy, MoveAbove)
                THEN [x |-> RNeg(cx), y |-> cy]
                ELSE handPos
  /\ unleashed' = IF RGt(energy, UnleashAbove) THEN TRUE
                  ELSE IF RLt(energy, IdleBelow) THEN FALSE
                  ELSE unleashed

\* variant: pointer-down gated by the energy as pointer-move is
handlePointerDown_IfQuiet ==
  /\ unleashed' = IF RLt(motionEnergy, PointerBelow) THEN TRUE ELSE unleashed
  /\ UNCHANGED <<startVideo, readyState, lastFrameData, bufferRef, motionEnergy, handPos>>
  /\ event' = [type |-> "pointerdown"]
  /\ pointerSeen' = TRUE
  /\ wave' = BrokenWave
  /\ seqA' = 0
  /\ seqB' = 0
  /\ decider' = "on"
  /\ held' = TRUE

handlePointerDown ==
  /\ unleashed' = TRUE
  /\ UNCHANGED <<startVideo, readyState, lastFrameData, bufferRef, motionEnergy, handPos>>
  /\ event' = [type |-> "pointerdown"]
  /\ pointerSeen' = TRUE
  /\ wave' = BrokenWave
  /\ seqA' = 0
  /\ seqB' = 0
  /\ decider' = "on"
  /\ held' = TRUE

\* variant: pointer-up toggles the state
handlePointerUp_Toggle ==
  /\ unleashed' = ~unleashed
  /\ UNCHANGED <<startVideo, readyState, lastFrameData, bufferRef, motionEnergy, handPos>>
  /\ event' = [type |-> "pointerup"]
  /\ pointerSeen' = TRUE
  /\ wave' = BrokenWave
  /\ seqA' = 0
  /\ seqB' = 0
  /\ decider' = "off"
  /\ held' = FALSE

handlePointerUp ==
  /\ unleashed' = FALSE
  /\ UNCHANGED <<startVideo, readyState, lastFrameData, bufferRef, motionEnergy, handPos>>
  /\ event' = [type |-> "pointerup"]
  /\ pointerSeen' = TRUE
  /\ wave' = BrokenWave
  /\ seqA' = 0
  /\ seqB' = 0
  /\ decider' = "off"
  /\ held' = FALSE

\* (e.clientX / window.innerWidth) * 2 - 1, likewise y
ScreenToUnit(client, inner) == RSubInt(RMulInt(Rat(client, inner), 2), 1)

\* variant: the energy gate written <= instead of <
handlePointerMove_AtMost(clientX, clientY) ==
  LET x == ScreenToUnit(clientX, innerWidth)
      y == ScreenToUnit(clientY, innerHeight)
  IN /\ handPos' = IF RLe(motionEnergy, PointerBelow)
                   THEN [x |-> x, y |-> y]
                   ELSE handPos
     /\ UNCHANGED <<startVideo, readyState, lastFrameData, bufferRef, motionEnergy, unleashed>>
     /\ event' = [type |-> "pointermove", x |-> x, y |-> y]
     /\ pointerSeen' = TRUE
     /\ wave' = BrokenWave
     /\ UNCHANGED <<seqA, seqB, decider, held>>

handlePointerMove(clientX, clientY) ==
  LET x == ScreenToUnit(clientX, innerWidth)
      y == ScreenToUnit(clientY, innerHeight)
  IN /\ handPos' = IF RLt(motionEnergy, PointerBelow)
                   THEN [x |-> x, y |-> y]
                   ELSE handPos
     /\ UNCHANGED <<startVideo, readyState, lastFrameData, bufferRef, motionEnergy, unleashed>>
     /\ event' = [type |-> "pointermove", x |-> x, y |-> y]
     /\ pointerSeen' = TRUE
     /\ wave' = BrokenWave
     /\ UNCHANGED <<seqA, seqB, decider, held>>

(* ---------------------------- GestureManager --------------------------- *)
startVideoResolve ==
  /\ startVideo = "pending"
  /\ startVideo' = "resolved"
  /\ event' = [type |-> "stream"]
  /\ UNCHANGED <<readyState, lastFrameData, bufferRef, unleashed, motionEnergy, handPos,
                 pointerSeen, wave, seqA, seqB, decider, held>>

startVideoReject ==
  /\ startVideo = "pending"
  /\ startVideo' = "rejected"
  /\ event' = [type |-> "denied"]
  /\ UNCHANGED <<readyState, lastFrameData, bufferRef, unleashed, motionEnergy, handPos,
                 pointerSeen, wave, seqA, seqB, decider, held>>

\* the video element buffers (or loses) data of the stream it plays
videoReadyState(r) ==
  /\ startVideo = "resolved"
  /\ r # readyState
  /\ readyState' = r
  /\ event' = [type |-> "readystate"]
  /\ UNCHANGED <<startVideo, lastFrameData, bufferRef, unleashed, motionEnergy, handPos,
                 pointerSeen, wave, seqA, seqB, decider, held>>

\* the identity of a newly allocated array: the least one not in use
Fresh(used) ==
  CHOOSE i \in 1..(Cardinality(used) + 1) :
    i \notin used /\ \A j \in 1..(i - 1) : j \in used

\* array identities are names only: once the tick has dropped the old
\* previous frame, the two arrays still referenced take the least names,
\* one name if they are one array
Compact(r) ==
  IF r.last = r.data THEN [last |-> 1, data |-> 1] ELSE [last |-> 1, data |-> 2]

\* variant: lastFrameData.current = data, without the copy
sampleFrame_Alias(data) ==
  LET t == Tally(data, lastFrameData)
      energy == Energy(t.diffScore)
      cx == Centre(t.sumX, t.activePixels)
      cy == Centre(t.sumY, t.activePixels)
      dataRef == Fresh({bufferRef.last})
  IN /\ lastFrameData' = data
     /\ bufferRef' = Compact([last |-> dataRef, data |-> dataRef])
     /\ handleGestureUpdate(energy, cx, cy)
     /\ event' = [type |-> "tick", emitted |-> TRUE, data |-> data,
                  last |-> lastFrameData, diffScore |-> t.diffScore,
                  activePixels |-> t.activePixels, sumX |-> t.sumX,
                  sumY |-> t.sumY, energy |-> energy, cx |-> cx, cy |-> cy]
     /\ wave' = WaveAfterTick(wave, motionEnergy, energy, unleashed, unleashed')
     /\ seqA' = SeqAAfterTick(seqA, energy, unleashed)
     /\ seqB' = SeqBAfterTick(seqB, energy, unleashed)
     /\ decider' = DeciderAfterTick(decider, energy)
     /\ UNCHANGED <<startVideo, readyState, pointerSeen, held>>

\* the body of the useFrame callback once getImageData has returned frame data
sampleFrame(data) ==
  LET t == Tally(data, lastFrameData)
      energy == Energy(t.diffScore)
      cx == Centre(t.sumX, t.activePixels)
      cy == Centre(t.sumY, t.activePixels)
      dataRef == Fresh({bufferRef.last})
  IN /\ lastFrameData' = data
     /\ bufferRef' =
          Compact([last |-> Fresh({bufferRef.last, dataRef}), data |-> dataRef])
     /\ handleGestureUpdate(energy, cx, cy)
     /\ event' = [type |-> "tick", emitted |-> TRUE, data |-> data,
                  last |-> lastFrameData, diffScore |-> t.diffScore,
                  activePixels |-> t.activePixels, sumX |-> t.sumX,
                  sumY |-> t.sumY, energy |-> energy, cx |-> cx, cy |-> cy]
     /\ wave' = WaveAfterTick(wave, motionEnergy, energy, unleashed, unleashed')
     /\ seqA' = SeqAAfterTick(seqA, energy, unleashed)
     /\ seqB' = SeqBAfterTick(seqB, energy, unleashed)
     /\ decider' = DeciderAfterTick(decider, energy)
     /\ UNCHANGED <<startVideo, readyState, pointerSeen, held>>

\* variant: the readyState test left out
useFrame_NoReadyCheck ==
  \E data \in Frames : sampleFrame(data)

\* useFrame callback, once per rendered frame
useFrame ==
  IF readyState = "HAVE_ENOUGH_DATA"
  THEN \E data \in Frames : sampleFrame(data)
  ELSE /\ event' = [type |-> "tick", emitted |-> FALSE]
       /\ UNCHANGED <<startVideo, readyState, lastFrameData, bufferRef, unleashed,
                      motionEnergy, handPos, pointerSeen, wave, seqA, seqB, decider, held>>

Next ==
  \/ startVideoResolve
  \/ startVideoReject
  \/ \E r \in ReadyStates : videoReadyState(r)
  \/ useFrame
  \/ handlePointerDown
  \/ handlePointerUp
  \/ \E clientX \in 0..innerWidth, clientY \in 0..innerHeight :
       handlePointerMove(clientX, clientY)

Spec == Init /\ [][Next]_vars

(* =============================== claims =============================== *)
\* a step that is a camera tick which read a frame and called onUpdate
TickEmits == event'.type = "tick" /\ event'.emitted
\* the last handler call was such a tick
Ticked == event.type = "tick" /\ event.emitted

HysteresisRule(state, energy) ==
  IF RGt(energy, Rat(35, 100)) THEN TRUE
  ELSE IF RLt(energy, Rat(1, 10)) THEN FALSE
  ELSE state

\* C1: after every tick that delivers a gesture update the interaction state
\* is UNLEASHED if the tick's energy is > 0.35, IDLE if it is < 0.1, and the
\* state before the tick otherwise; from IDLE the energies 0.05, 0.2, 0.36
\* give IDLE, IDLE, UNLEASHED, and from UNLEASHED the energies 0.36, 0.2, 0.05
\* give UNLEASHED, UNLEASHED, IDLE.
C1_Hysteresis ==
  /\ [][TickEmits => unleashed' = HysteresisRule(unleashed, event'.energy)]_vars
  /\ [](/\ seqA \in {1, 2} => ~unleashed
        /\ seqA = 3 => unleashed
        /\ seqB \in {1, 2} => unleashed
        /\ seqB = 3 => ~unleashed)

C1_Witness == seqA = 3 /\ Ticked /\ unleashed

\* C2: a run of ticks, with no pointer event, whose energy rises monotonically
\* from 0 to a peak of 0.5 and falls monotonically back to 0 makes exactly one
\* IDLE->UNLEASHED and exactly one UNLEASHED->IDLE transition: never more than
\* one of either, none down while rising, and both done when it ends.
C2_OneWaveOneCycle ==
  /\ wave.phase \in {"rising", "falling", "done"} =>
       /\ wave.ups <= 1
       /\ wave.downs <= wave.ups
  /\ wave.phase = "rising" => wave.downs = 0
  /\ wave.phase = "falling" => wave.ups = 1 /\ (unleashed <=> wave.downs = 0)
  /\ wave.phase = "done" => wave.ups = 1 /\ wave.downs = 1 /\ ~unleashed

C2_Witness == wave.phase = "done" /\ Ticked

\* C3: the signal a tick emits has 0 <= energy <= 1, -1 <= x <= 1, -1 <= y <= 1.
C3_SignalBounded ==
  Ticked =>
    /\ RLe(RInt(0), event.energy) /\ RLe(event.energy, RInt(1))
    /\ RLe(RInt(-1), event.cx) /\ RLe(event.cx, RInt(1))
    /\ RLe(RInt(-1), event.cy) /\ RLe(event.cy, RInt(1))

C3_Witness == Ticked /\ event.diffScore > EnergyDivisor /\ REq(event.energy, RInt(1))

\* C4: a tick while the stream has not enough data (acquisition pending or
\* failed, or the video still buffering) emits nothing and changes neither the
\* previous-frame buffer nor the retained energy, position and state; a failed
\* acquisition stays failed, and with no pointer event the signal then stays
\* {0, 0, 0} and the state IDLE.
C4_NoFrameNoOp ==
  /\ [][(event'.type = "tick" /\ readyState # "HAVE_ENOUGH_DATA") =>
          /\ ~event'.emitted
          /\ UNCHANGED <<lastFrameData, bufferRef, motionEnergy, handPos, unleashed>>]_vars
  /\ [][startVideo = "rejected" =>
          startVideo' = "rejected" /\ readyState' # "HAVE_ENOUGH_DATA"]_vars
  /\ []((startVideo = "rejected" /\ ~pointerSeen) =>
          /\ motionEnergy = RInt(0) /\ handPos = Origin
          /\ ~unleashed /\ lastFrameData = Null)

C4_Witness ==
  startVideo = "rejected" /\ event.type = "tick" /\ ~event.emitted /\ ~pointerSeen

\* C5: pointer-down sets UNLEASHED and pointer-up sets IDLE, whatever the
\* state and the energy; neither changes the retained energy or position.
C5_PointerDownUp ==
  [][/\ event'.type = "pointerdown" =>
          unleashed' /\ UNCHANGED <<motionEnergy, handPos>>
     /\ event'.type = "pointerup" =>
          ~unleashed' /\ UNCHANGED <<motionEnergy, handPos>>]_vars

C5_Witness ==
  event.type = "pointerup" /\ ~unleashed /\ RGt(motionEnergy, Rat(35, 100))

\* C6: pointer-move sets the retained position to the pointer's when the
\* retained energy is < 0.2 and leaves it alone when it is >= 0.2; it never
\* changes the interaction state or the energy.
C6_PointerMove ==
  [][event'.type = "pointermove" =>
       /\ UNCHANGED <<unleashed, motionEnergy>>
       /\ handPos' = IF RLt(motionEnergy, Rat(2, 10))
                     THEN [x |-> event'.x, y |-> event'.y]
                     ELSE handPos]_vars

C6_Witness ==
  /\ event.type = "pointermove"
  /\ REq(motionEnergy, Rat(2, 10))
  /\ ~(REq(handPos.x, event.x) /\ REq(handPos.y, event.y))

\* C7: a tick whose frame is identical to the stored previous frame yields
\* score 0, energy 0 and position (0, 0).
C7_IdenticalFrames ==
  (Ticked /\ event.last = event.data) =>
    /\ event.diffScore = 0
    /\ REq(event.energy, RInt(0))
    /\ REq(event.cx, RInt(0)) /\ REq(event.cy, RInt(0))

C7_Witness == Ticked /\ event.last = event.data /\ event.data.n > 0

SamePos(p, x, y) == REq(p.x, x) /\ REq(p.y, y)

\* C8 as stated: every tick that reads a frame makes the retained energy, x
\* and y equal to the tick's energy and position.
C8_Original ==
  Ticked => REq(motionEnergy, event.energy) /\ SamePos(handPos, event.cx, event.cy)

\* C8 amended: every tick that reads a frame makes the retained energy the
\* tick's energy; it replaces the retained position only when that energy is
\* > 0.15, and then by (-x, y); otherwise, in particular on a tick with zero
\* active pixels, the retained position stays what it was.
C8_RetainedSignal ==
  [][TickEmits =>
       /\ motionEnergy' = event'.energy
       /\ IF RGt(event'.energy, Rat(15, 100))
          THEN SamePos(handPos', RNeg(event'.cx), event'.cy)
          ELSE handPos' = handPos]_vars

C8_Witness ==
  /\ Ticked /\ event.last # Null /\ event.activePixels = 0
  /\ REq(event.cx, RInt(0)) /\ REq(event.cy, RInt(0))
  /\ ~SamePos(handPos, RInt(0), RInt(0))

\* the sum of absolute differences over R, G, B of pixel p of two frames
Sad(a, b, p) ==
  LET c == PixelAt(a, p)
      d == PixelAt(b, p)
  IN MathAbs(c[1] - d[1]) + MathAbs(c[2] - d[2]) + MathAbs(c[3] - d[3])

Moved ==
  [a \in Frames, b \in Frames |->
     {p \in 0..(CanvasSize * CanvasSize - 1) : Sad(a, b, p) > 50}]

MovedPixels == [a \in Frames, b \in Frames |-> Cardinality(Moved[a, b])]

\* C9: on a tick with a previous frame the score is the number of pixels whose
\* summed absolute R, G, B difference is strictly greater than 50 (alpha plays
\* no part), and it equals the active-pixel count.
C9_ScoreCountsPixels ==
  (Ticked /\ event.last # Null) =>
    /\ event.diffScore = MovedPixels[event.last, event.data]
    /\ event.diffScore = event.activePixels

C9_Witness ==
  /\ Ticked /\ event.last # Null
  /\ event.data # event.last /\ event.data.n = event.last.n
  /\ event.diffScore = 0

\* C10: energy is min(score / 500, 1): exactly 1 for every score >= 500,
\* score / 500 and strictly below 1 for every score < 500.
C10_EnergySaturates ==
  Ticked =>
    /\ event.diffScore >= 500 => REq(event.energy, RInt(1))
    /\ event.diffScore < 500 =>
         REq(event.energy, Rat(event.diffScore, 500)) /\ RLt(event.energy, RInt(1))

C10_Witness ==
  Ticked /\ event.diffScore = CanvasSize * CanvasSize /\ REq(event.energy, RInt(1))

\* the quadrant of pixel p: which half its column and its row are in
QuadrantOf(p) ==
  [right |-> (p % 64) >= 32, bottom |-> (p \div 64) >= 32]

MovedQuadrants == [a \in Frames, b \in Frames |-> {QuadrantOf(p) : p \in Moved[a, b]}]

\* C11: when the active pixels of a tick are not empty and all in one quadrant
\* of the grid, the emitted position is in that quadrant's range: -1 <= x < 0
\* for the left half and 0 <= x < 1 for the right half, -1 <= y < 0 for the
\* top half and 0 <= y < 1 for the bottom half.
C11_CentroidInQuadrant ==
  (Ticked /\ event.last # Null) =>
    \A q \in MovedQuadrants[event.last, event.data] :
      MovedQuadrants[event.last, event.data] = {q} =>
        /\ REq(event.cx, Rat(event.sumX - 32 * event.activePixels, 32 * event.activePixels))
        /\ REq(event.cy, Rat(event.sumY - 32 * event.activePixels, 32 * event.activePixels))
        /\ IF q.right THEN RLe(RInt(0), event.cx) /\ RLt(event.cx, RInt(1))
                      ELSE RLe(RInt(-1), event.cx) /\ RLt(event.cx, RInt(0))
        /\ IF q.bottom THEN RLe(RInt(0), event.cy) /\ RLt(event.cy, RInt(1))
                       ELSE RLe(RInt(-1), event.cy) /\ RLt(event.cy, RInt(0))

C11_Witness ==
  /\ Ticked /\ event.last # Null
  /\ MovedQuadrants[event.last, event.data] = {[right |-> TRUE, bottom |-> TRUE]}
  /\ RGt(event.cx, RInt(0)) /\ RLe(RInt(0), event.cy)

\* C12: the first tick that reads a frame (no previous frame stored) skips
\* the differencing and reports score 0, energy 0 and position (0, 0); after
\* every tick that reads a frame the stored previous frame is an array of its
\* own, equal to that tick's frame; no other step touches it, so every later
\* tick is differenced against the frame of the tick before it.
C12_PreviousFrame ==
  /\ [](Ticked =>
          /\ lastFrameData = event.data
          /\ bufferRef.last # 0 /\ bufferRef.last # bufferRef.data
          /\ event.last = Null =>
               /\ event.diffScore = 0 /\ REq(event.energy, RInt(0))
               /\ REq(event.cx, RInt(0)) /\ REq(event.cy, RInt(0)))
  /\ [][TickEmits =>
          /\ event'.last = lastFrameData
          /\ lastFrameData # Null =>
               event'.diffScore = MovedPixels[lastFrameData, event'.data]]_vars
  /\ [][~TickEmits => UNCHANGED lastFrameData]_vars

C12_Witness ==
  /\ Ticked /\ event.last = Null /\ event.data.n > 0
  /\ lastFrameData = event.data /\ bufferRef.last # bufferRef.data

\* C13: the interaction state is UNLEASHED exactly when the latest deciding
\* event (pointer-down or tick with energy > 0.35 on one side, pointer-up or
\* tick with energy < 0.1 on the other) is of the first kind; so a tick with
\* energy < 0.1 leaves IDLE even while the pointer is held down, and a
\* pointer-up leaves IDLE even while the energy is above 0.35.
C13_LastWriterWins ==
  /\ unleashed <=> decider = "on"
  /\ (Ticked /\ RLt(event.energy, Rat(1, 10))) => ~unleashed
  /\ event.type = "pointerup" => ~unleashed

C13_Witness ==
  held /\ Ticked /\ event.last = Null /\ ~unleashed /\ decider = "off"

\* C14: a tick that reads a frame always updates the retained energy; it
\* writes the retained position only when its energy is > 0.15, and then as
\* (-x, y); the only other writer of the position is a pointer-move while the
\* retained energy is < 0.2.
C14_PositionWriters ==
  [][/\ TickEmits =>
          /\ motionEnergy' = event'.energy
          /\ RGt(event'.energy, Rat(15, 100)) =>
               handPos' = [x |-> RNeg(event'.cx), y |-> event'.cy]
          /\ RLe(event'.energy, Rat(15, 100)) => handPos' = handPos
     /\ handPos' # handPos =>
          \/ TickEmits /\ RGt(event'.energy, Rat(15, 100))
          \/ event'.type = "pointermove" /\ RLt(motionEnergy, Rat(2, 10))]_vars

C14_Witness ==
  /\ event.type = "pointermove"
  /\ RGt(motionEnergy, Rat(15, 100)) /\ RLt(motionEnergy, Rat(2, 10))
  /\ handPos = [x |-> event.x, y |-> event.y]

====
